---- MODULE Spec2Model ----
(***************************************************************************)
(* Broadcast composition and delivery of the Telegram bot, and the bounded *)
(* collections behind it: AppError, written by logAppError, and Broadcast, *)
(* written by the broadcast_send handler.                                  *)
(*                                                                         *)
(* Handlers are async functions on one event loop: the code between two    *)
(* awaits runs atomically, and other handlers may run at an await.  Each   *)
(* action below is one such atomic stretch.                                *)
(***************************************************************************)
EXTENDS Integers, Sequences, FiniteSets, TLC

\* ---------------------------------------------------------------- bounds
MaxDraftObjs == 2     \* BroadcastDraft objects alive at one time
MaxBurst == 4         \* photo events one draft sees while it awaits photos
MaxSends == 2         \* broadcast_send handlers running at one time
MaxLogs == 2          \* logAppError invocations running at one time
MaxAppends == 3       \* AppError documents created during a run
MaxBroadcasts == 2    \* Broadcast documents created during a run
MaxOrders == 2        \* order documents of one collection during a run
MaxRequests == 2      \* order requests being handled at one time
MaxUploads == 2       \* attachment files stored during a run

\* ------------------------------------------------------ program constants
MAX_BROADCAST_PHOTOS == 3
ErrorLogCapacity == 500
BroadcastCapacity == 500
InlineLimit == 20     \* names the summary lists per outcome

Null == -1            \* a missing (undefined / null) number
NoTimer == 0          \* draft.mediaGroupTimer undefined
NoDraft == 0          \* broadcastDrafts.get(id) undefined
NoText == <<>>        \* draft.text undefined (or empty: the code tests !draft.text)

Operators == {1, 2}   \* telegram ids of the people who write to the bot
Lone == {1}           \* the one of them at the keyboard when a single operator is followed
NoPhoto == 0          \* getLargestPhotoFileId found no file id
NoName == 0           \* "нет", printed for an empty list of names
AlbumIds == {1}       \* media_group_id values; Null when the photo is single
TextMessages == {<<>>, <<" ">>, <<"a">>, <<" ", "b", " ">>}   \* message.text: its characters

\* The users collection: one of these, fixed for the run.
UserCollections ==
    { { [telegramId |-> 1, isAdmin |-> FALSE, chatId |-> 101, isBot |-> FALSE] },
      { [telegramId |-> 1, isAdmin |-> TRUE, chatId |-> Null, isBot |-> FALSE] },
      { [telegramId |-> 1, isAdmin |-> TRUE, chatId |-> 101, isBot |-> FALSE],
        [telegramId |-> 2, isAdmin |-> FALSE, chatId |-> 0, isBot |-> FALSE],
        [telegramId |-> 3, isAdmin |-> FALSE, chatId |-> 103, isBot |-> FALSE],
        [telegramId |-> 4, isAdmin |-> FALSE, chatId |-> 104, isBot |-> TRUE] } }

\* The users collection when two operators are followed: both admins, or the second
\* one a user without the isAdmin flag.
PairCollections ==
    { { [telegramId |-> 1, isAdmin |-> TRUE, chatId |-> 101, isBot |-> FALSE],
        [telegramId |-> 2, isAdmin |-> a, chatId |-> 102, isBot |-> FALSE] }
      : a \in BOOLEAN }

Ledgers == {"AppError", "Broadcast"}
Capacity(L) == IF L = "AppError" THEN ErrorLogCapacity ELSE BroadcastCapacity

DraftIds == 1..MaxDraftObjs
SendIds == 1..MaxSends
LogIds == 1..MaxLogs
OrderIds == 1..MaxOrders
ReqIds == 1..MaxRequests

VARIABLES
    userDocs,         \* the users collection
    broadcastDrafts,  \* Map<number, BroadcastDraft>: operator -> draft object or NoDraft
    heap,             \* the BroadcastDraft objects, by identity
    timers,           \* pending setTimeout handles: <<draft, k>>, armed by the draft's k-th photo
    send,             \* the broadcast_send handlers
    ledger,           \* the two collections, each the set of its documents' creation stamps
    clock,            \* the last creation stamp (createdAt) handed out, per collection
    log,              \* the route handlers that call logAppError
    lastReply,        \* <<operator, what the bot told them last>>; operator 0 is the console
    report,           \* the last delivery summary the bot sent, and the document after it
    kind,             \* the order collection the run follows: Order or NutritionOrder
    orders,           \* that collection: order _id -> status, "absent" before the order exists
    userStatus,       \* the customer's trainingStatus (nutritionStatus for NutritionOrder)
    uploads,          \* attachment files written to the uploads directory
    req               \* the handlers of the order routes

deskVars == <<kind, orders, userStatus, uploads, req>>
vars == <<userDocs, broadcastDrafts, heap, timers, send, ledger, clock, log, lastReply, report,
          deskVars>>
botVars == <<broadcastDrafts, heap, timers, send, lastReply, report>>

\* ---------------------------------------------------------------- helpers
Last(s) == s[Len(s)]
Take(s, n) == SubSeq(s, 1, IF n < Len(s) THEN n ELSE Len(s))

Min(S) == CHOOSE x \in S : \A y \in S : x <= y

\* String.prototype.trim on a message text: a sequence of characters.
RECURSIVE TrimLeft(_)
TrimLeft(s) == IF s # <<>> /\ Head(s) = " " THEN TrimLeft(Tail(s)) ELSE s
RECURSIVE TrimRight(_)
TrimRight(s) ==
    IF s # <<>> /\ Last(s) = " " THEN TrimRight(SubSeq(s, 1, Len(s) - 1)) ELSE s
Trim(s) == TrimRight(TrimLeft(s))

\* getLargestPhotoFileId: the file id of the last size of message.photo.
getLargestPhotoFileId(photo) == IF Len(photo) = 0 THEN NoPhoto ELSE Last(photo)

\* message.photo, the file ids of its sizes, of the n-th photo sent to a draft: file
\* ids are unique, photo n has the thumbnail 100 + n and the full size n.
PhotoMessages(n) == {<<>>, <<n>>, <<100 + n, n>>}

\* An admin check that is content with finding the user.
isAdminUserMutant(telegramId) ==
    \E u \in userDocs : u.telegramId = telegramId
\* isAdminUser: Boolean(user?.isAdmin) of User.findOne({telegramId}).
isAdminUser(telegramId) ==
    \E u \in userDocs : u.telegramId = telegramId /\ u.isAdmin

\* A fresh BroadcastDraft; also what a slot of the heap holds while it is free.
NewDraft(owner) ==
    [ step |-> "await_photos", photoFileIds |-> <<>>, text |-> NoText,
      mediaGroupId |-> Null, mediaGroupTimer |-> NoTimer,
      \* history, not fields of the object:
      owner |-> owner,   \* whose compose command made it (0: the slot is free)
      seen |-> 0,        \* photo events it saw while awaiting photos, rejected ones too
      single |-> FALSE ] \* one of them was no album photo

IdleSend ==
    [ pc |-> "idle", op |-> 0, draft |-> NoDraft, users |-> <<>>, idx |-> 1,
      successCount |-> 0, failedCount |-> 0, deliveredNames |-> <<>>,
      failedNames |-> <<>>, extra |-> 0, oldIds |-> {},
      \* history, not locals of the handler:
      attempted |-> <<>>,        \* the users sendBroadcastToChat was called for, in order
      confirmed |-> <<>>,        \* <<photoFileIds, text>> of the draft when the guard passed
      sent |-> <<>>,             \* <<photoFileIds, text>> of each sendBroadcastToChat call
      recorded |-> <<>>,         \* <<photoFileIds, text>> given to Broadcast.create, if called
      overlapped |-> FALSE ]     \* its append-and-prune cycle ran beside another one

\* No summary sent yet.
NoReport ==
    [ to |-> 0, successCount |-> 0, failedCount |-> 0, total |-> 0,
      deliveredPreview |-> <<>>, failedPreview |-> <<>>, document |-> <<>> ]

IdleLog ==
    [ pc |-> "idle", extra |-> 0, oldIds |-> {},
      \* history:
      failed |-> FALSE,          \* an AppError call of this invocation rejected
      overlapped |-> FALSE ]     \* its append-and-prune cycle ran beside another one

\* ------------------------------------------------------------ orders
Kinds == {"training", "nutrition"}   \* Order and NutritionOrder; they share no document
Customer == 2         \* telegramId of the user whose orders the run follows
Stranger == 5         \* a telegramId the users collection does not hold
Statuses == {"pending", "accepted", "declined", "completed"}   \* the status enum of an order

\* No request is being handled by this handler.
IdleReq ==
    [ pc |-> "idle", route |-> "none", id |-> 0, saved |-> FALSE, result |-> 0 ]

\* No order yet, nothing uploaded, the customer's status at its default.
DeskAt(k) ==
    /\ kind = k
    /\ orders = [o \in OrderIds |-> "absent"]
    /\ userStatus = "none"
    /\ uploads = 0
    /\ req = [r \in ReqIds |-> IdleReq]

\* The process has just started.  A collection holds what earlier runs left: it is
\* empty, full, or one document short of full.
Init ==
    /\ userDocs \in UserCollections
    /\ broadcastDrafts = [o \in Operators |-> NoDraft]
    /\ heap = [d \in DraftIds |-> NewDraft(0)]
    /\ timers = {}
    /\ send = [i \in SendIds |-> IdleSend]
    /\ \E n \in [Ledgers -> {0, 1, ErrorLogCapacity, BroadcastCapacity}] :
          ledger = [L \in Ledgers |-> 1..(Capacity(L) - n[L])]
    /\ clock = [L \in Ledgers |-> Cardinality(ledger[L])]
    /\ log = [i \in LogIds |-> IdleLog]
    /\ lastReply = <<0, "none">>
    /\ report = NoReport
    /\ DeskAt("training")

\* ------------------------------------------------------------ the heap
InCycle(pc) == pc \in {"create", "count", "findOld", "delete"}
Running(pc) == pc = "loop" \/ InCycle(pc)

\* The objects something still refers to: the map, a pending timer's closure, a
\* running broadcast_send handler's local.
Live(map, T, S) ==
    ({map[o] : o \in Operators} \cup {t[1] : t \in T}
        \cup {S[i].draft : i \in {j \in SendIds : Running(S[j].pc)}}) \ {NoDraft}

\* The heap h once the step is over: an object nothing refers to is gone.
Collect(h) ==
    [ d \in DraftIds |->
        IF d \in Live(broadcastDrafts', timers', send') THEN h[d] ELSE NewDraft(0) ]

\* ------------------------------------------------------------ draft machine
Reply(op, what) == lastReply' = <<op, what>>
\* A handler of the bot touches neither the users collection nor the route handlers.
BotStep == UNCHANGED <<userDocs, log, deskVars>>
NoDelivery == BotStep /\ UNCHANGED <<send, ledger, clock, report>>

\* A clearTimeout that clears nothing.
ClearTimeoutMutant(T, d, k) == T
\* clearTimeout(handle): a fired or cleared handle is not pending, a no-op.
ClearTimeout(T, d, k) == T \ {<<d, k>>}

\* A clearDraft that leaves the timer armed.
TimersAfterClearDraftMutant(op) == timers
\* clearDraft(telegramId): the timers and the map after it.
TimersAfterClearDraft(op) ==
    LET d == broadcastDrafts[op] IN
    IF d # NoDraft /\ heap[d].mediaGroupTimer # NoTimer
    THEN ClearTimeout(timers, d, heap[d].mediaGroupTimer)
    ELSE timers
\* A clearDraft that empties the map.
DraftsAfterClearDraftMutant(op) == [o \in Operators |-> NoDraft]
DraftsAfterClearDraft(op) == [broadcastDrafts EXCEPT ![op] = NoDraft]

\* bot.hears([BROADCAST_COMMAND, "/text"])
Compose(op) ==
    /\ NoDelivery
    /\ IF ~isAdminUser(op)
       THEN /\ Reply(op, "denied")
            /\ UNCHANGED <<broadcastDrafts, heap, timers>>
       ELSE LET T == TimersAfterClearDraft(op)
                free == DraftIds \ Live(DraftsAfterClearDraft(op), T, send)
            IN
            /\ free # {}
            /\ timers' = T
            /\ broadcastDrafts' = [broadcastDrafts EXCEPT ![op] = Min(free)]
            /\ Reply(op, "compose")
            /\ heap' = Collect([heap EXCEPT ![Min(free)] = NewDraft(op)])

\* draft.photoFileIds.push(photoId)
Push(photoFileIds, photoId) == Append(photoFileIds, photoId)

\* The cap test off by one.
LimitReachedMutant(photoFileIds) == Len(photoFileIds) > MAX_BROADCAST_PHOTOS
\* if (draft.photoFileIds.length >= MAX_BROADCAST_PHOTOS) -> "Можно отправить максимум 3 фото."
LimitReached(photoFileIds) == Len(photoFileIds) >= MAX_BROADCAST_PHOTOS

\* An album test that every photo passes.
InAlbumMutant(album) == TRUE
\* if (mediaGroupId): the photo came as part of an album
InAlbum(album) == album # Null

\* A setTimeout whose callback is never scheduled.
ArmMutant(T, d, k) == T
\* setTimeout(callback, 700) by the k-th photo of draft object d
Arm(T, d, k) == T \cup {<<d, k>>}

\* A guard that looks at the presence of a draft only.
NotAwaitingPhotosMutant(d) == d = NoDraft
\* if (!draft || draft.step !== "await_photos") return;
NotAwaitingPhotos(d) == d = NoDraft \/ heap[d].step # "await_photos"

\* bot.on("photo")
Photo(op, photo, album) ==
    LET d == broadcastDrafts[op]
        photoId == getLargestPhotoFileId(photo)
    IN
    /\ NoDelivery
    /\ UNCHANGED broadcastDrafts
    /\ IF NotAwaitingPhotos(d)
       THEN UNCHANGED <<heap, timers, lastReply>>
       ELSE IF photoId = NoPhoto
       THEN Reply(op, "photo_failed") /\ UNCHANGED <<heap, timers>>
       ELSE /\ heap[d].seen < MaxBurst
            /\ LET noted == [heap EXCEPT ![d].seen = @ + 1,
                                         ![d].single = @ \/ album = Null]
               IN
               IF LimitReached(heap[d].photoFileIds)
               THEN /\ heap' = noted
                    /\ Reply(op, "limit")
                    /\ UNCHANGED timers
               ELSE LET pushed == Push(heap[d].photoFileIds, photoId)
                        k == Len(pushed)
                    IN
                    IF InAlbum(album)
                    THEN /\ heap' = [noted EXCEPT ![d].photoFileIds = pushed,
                                                  ![d].mediaGroupId = album,
                                                  ![d].mediaGroupTimer = k]
                         /\ timers' =
                              Arm(IF heap[d].mediaGroupTimer # NoTimer
                                  THEN ClearTimeout(timers, d, heap[d].mediaGroupTimer)
                                  ELSE timers, d, k)
                         /\ UNCHANGED lastReply
                    ELSE /\ heap' = [noted EXCEPT ![d].photoFileIds = pushed,
                                                  ![d].step = "await_text"]
                         /\ Reply(op, "photo_ok")
                         /\ UNCHANGED timers

\* The setTimeout callback armed by the k-th photo of draft object d.
TimerFires(d, k) ==
    /\ <<d, k>> \in timers
    /\ NoDelivery
    /\ timers' = timers \ {<<d, k>>}
    /\ UNCHANGED broadcastDrafts
    /\ IF Len(heap[d].photoFileIds) = 0
       THEN /\ UNCHANGED lastReply
            /\ heap' = Collect(heap)
       ELSE /\ Reply(heap[d].owner, "send_text")
            /\ heap' = Collect([heap EXCEPT ![d].step = "await_text"])

\* An emptiness test that no text fails.
TextMissingMutant(text) == FALSE
\* if (!text) -> "Текст не может быть пустым."
TextMissing(text) == text = <<>>

\* A step test that every step passes.
AwaitsTextMutant(step) == TRUE
\* if (draft.step !== "await_text") return;
AwaitsText(step) == step = "await_text"

\* bot.on("text")
Text(op, raw) ==
    LET d == broadcastDrafts[op]
        text == Trim(raw)
    IN
    /\ NoDelivery
    /\ UNCHANGED <<broadcastDrafts, timers>>
    /\ IF d = NoDraft
       THEN UNCHANGED <<heap, lastReply>>
       ELSE IF heap[d].step = "await_photos"
       THEN Reply(op, "photos_first") /\ UNCHANGED heap
       ELSE IF ~AwaitsText(heap[d].step)
       THEN UNCHANGED <<heap, lastReply>>
       ELSE IF TextMissing(text)
       THEN Reply(op, "empty_text") /\ UNCHANGED heap
       ELSE /\ heap' = [heap EXCEPT ![d].text = text, ![d].step = "preview"]
            /\ Reply(op, "preview")

\* bot.action("broadcast_cancel")
Cancel(op) ==
    /\ NoDelivery
    /\ timers' = TimersAfterClearDraft(op)
    /\ broadcastDrafts' = DraftsAfterClearDraft(op)
    /\ Reply(op, "cancelled")
    /\ heap' = Collect(heap)

\* ------------------------------------------------------------ bounded ledgers
\* A limit one short.
RECURSIVE OldestMutant(_, _)
OldestMutant(S, extra) ==
    IF extra <= 1 \/ S = {} THEN {}
    ELSE LET m == Min(S) IN {m} \cup OldestMutant(S \ {m}, extra - 1)
\* find().sort({createdAt: 1}).limit(extra): the extra oldest documents of S.
RECURSIVE Oldest(_, _)
Oldest(S, extra) ==
    IF extra <= 0 \/ S = {} THEN {}
    ELSE LET m == Min(S) IN {m} \cup Oldest(S \ {m}, extra - 1)

\* Handler i of P starts an append-and-prune cycle: its pc moves to "create"; the
\* history notes which cycles on the same collection run beside each other.
BeginCycle(P, i) ==
    [ j \in DOMAIN P |->
        IF j = i
        THEN [P[i] EXCEPT !.pc = "create",
                          !.overlapped = \E k \in DOMAIN P \ {i} : InCycle(P[k].pc)]
        ELSE IF InCycle(P[j].pc) THEN [P[j] EXCEPT !.overlapped = TRUE] ELSE P[j] ]

\* Model.create(doc): the document gets the next createdAt.
Create(L) ==
    /\ ledger' = [ledger EXCEPT ![L] = @ \cup {clock[L] + 1}]
    /\ clock' = [clock EXCEPT ![L] = @ + 1]

\* Model.countDocuments()
countDocuments(L) == Cardinality(ledger[L])

\* An overflow of one whatever the count.
ExtraOneMutant(total, capacity) == IF total > capacity THEN 1 ELSE 0
\* The overflow counted from one document early.
ExtraMutant(total, capacity) == IF total >= capacity THEN total - capacity + 1 ELSE 0
\* if (total > 500) { const extra = total - 500; ... }: 0 when nothing is pruned
Extra(total, capacity) == IF total > capacity THEN total - capacity ELSE 0

\* Model.deleteMany({_id: {$in: oldIds}})
DeleteMany(L, oldIds) ==
    /\ ledger' = [ledger EXCEPT ![L] = @ \ oldIds]
    /\ UNCHANGED clock

\* The run may still create a document in L, beside the n creations under way.
MayAppend(L, n) ==
    clock[L] + n < Capacity(L) + (IF L = "AppError" THEN MaxAppends ELSE MaxBroadcasts)

\* ------------------------------------------------------------ delivery engine
\* User.find({chatId: {$exists: true, $ne: null}, isBot: {$ne: true}})
FoundUsers == {u \in userDocs : u.chatId # Null /\ ~u.isBot}

RECURSIVE InOrder(_)
InOrder(S) ==
    IF S = {} THEN <<>>
    ELSE LET u == CHOOSE x \in S : \A y \in S : x.telegramId <= y.telegramId
         IN <<u>> \o InOrder(S \ {u})

\* A loop without the continue: no user is passed over.
SkipToMutant(users, idx) == idx
\* for (const user of users) { if (!chatId) continue; ... }: the next index at or
\* after idx whose user has a chatId, Len(users) + 1 when the loop is over.
RECURSIVE SkipTo(_, _)
SkipTo(users, idx) ==
    IF idx > Len(users) \/ users[idx].chatId # 0 THEN idx
    ELSE SkipTo(users, idx + 1)

\* formatUserName(user), standing for the user it names.
formatUserName(user) == user.telegramId

\* A guard that looks at the presence of a draft only.
ConfirmAcceptsMutant(d) == d # NoDraft
\* if (!draft || draft.step !== "preview" || !draft.text) -> "Нет данных для рассылки."
ConfirmAccepts(d) ==
    /\ d # NoDraft
    /\ heap[d].step = "preview"
    /\ heap[d].text # NoText

\* draft.photoFileIds and draft.text, as a call reads them from the draft object.
Payload(d) == <<heap[d].photoFileIds, heap[d].text>>

\* The handler calls sendBroadcastToChat for the user at idx, or Broadcast.create
\* when the loop is over: the call's arguments are read from the draft now.
Issue(me) ==
    IF me.idx > Len(me.users)
    THEN [me EXCEPT !.recorded = <<Payload(me.draft)>>]
    ELSE [me EXCEPT !.sent = Append(@, Payload(me.draft))]

\* The handler at the top of the for loop, or past it at Broadcast.create.
AtLoop(S, i) ==
    IF S[i].idx > Len(S[i].users) THEN BeginCycle(S, i) ELSE S

\* bot.action("broadcast_send"), up to the first send: the guard, the two notices
\* and User.find.
Confirm(op) ==
    LET d == broadcastDrafts[op] IN
    /\ BotStep
    /\ UNCHANGED <<broadcastDrafts, heap, timers, ledger, clock, report>>
    /\ IF ~ConfirmAccepts(d)
       THEN Reply(op, "no_data") /\ UNCHANGED send
       ELSE /\ MayAppend("Broadcast",
                         Cardinality({j \in SendIds : send[j].pc \in {"loop", "create"}}))
            /\ \E i \in SendIds :
                 /\ send[i].pc = "idle"
                 /\ \A j \in SendIds : j < i => send[j].pc # "idle"
                 /\ LET users == InOrder(FoundUsers)
                        started == [IdleSend EXCEPT !.pc = "loop", !.op = op,
                                                    !.draft = d, !.users = users,
                                                    !.idx = SkipTo(users, 1),
                                                    !.confirmed = Payload(d)]
                    IN send' = AtLoop([send EXCEPT ![i] = Issue(started)], i)
            /\ Reply(op, "starting")

\* A catch that names the failure without counting it.
TallyMutant(me, user, ok) ==
    IF ok
    THEN [me EXCEPT !.successCount = @ + 1,
                    !.deliveredNames = Append(@, formatUserName(user))]
    ELSE [me EXCEPT !.failedNames = Append(@, formatUserName(user))]
\* try { ...; successCount += 1; deliveredNames.push(formatUserName(user)) }
\* catch (error) { failedCount += 1; failedNames.push(formatUserName(user)) }
Tally(me, user, ok) ==
    IF ok
    THEN [me EXCEPT !.successCount = @ + 1,
                    !.deliveredNames = Append(@, formatUserName(user))]
    ELSE [me EXCEPT !.failedCount = @ + 1,
                    !.failedNames = Append(@, formatUserName(user))]

\* One iteration of the loop: sendBroadcastToChat resolves (ok) or rejects.
SendNext(i, ok) ==
    LET me == send[i]
        user == me.users[me.idx]
        counted == Tally(me, user, ok)
        next == [counted EXCEPT !.idx = SkipTo(me.users, me.idx + 1),
                                !.attempted = Append(@, user.telegramId)]
    IN
    /\ me.pc = "loop"
    /\ BotStep
    /\ send' = AtLoop([send EXCEPT ![i] = Issue(next)], i)
    /\ UNCHANGED <<broadcastDrafts, heap, timers, ledger, clock, lastReply, report>>

\* names.slice(0, 20).join(", ") || "нет": the names the summary lists, NoName
\* standing for the word it prints when there is none.
Preview(names) ==
    IF names = <<>> THEN <<NoName>> ELSE Take(names, InlineLimit)

\* An overflow test one name late.
HasOverflowMutant(deliveredNames, failedNames) ==
    Len(deliveredNames) > InlineLimit + 1 \/ Len(failedNames) > InlineLimit + 1
\* const hasOverflow = deliveredNames.length > 20 || failedNames.length > 20
HasOverflow(deliveredNames, failedNames) ==
    Len(deliveredNames) > InlineLimit \/ Len(failedNames) > InlineLimit

\* clearDraft(telegramUser.id) and the summary, after the last Broadcast call.  With
\* no overflow the handler is over and its locals are gone; else it goes on to the
\* document, with the two lists of names.
FinishSend(i) ==
    LET me == send[i] IN
    /\ report' = [ to |-> me.op,
                   successCount |-> me.successCount,
                   failedCount |-> me.failedCount,
                   total |-> me.successCount + me.failedCount,
                   deliveredPreview |-> Preview(me.deliveredNames),
                   failedPreview |-> Preview(me.failedNames),
                   document |-> <<>> ]
    /\ send' = [send EXCEPT ![i] =
                  IF HasOverflow(me.deliveredNames, me.failedNames)
                  THEN [IdleSend EXCEPT !.pc = "report", !.op = me.op,
                                        !.deliveredNames = me.deliveredNames,
                                        !.failedNames = me.failedNames]
                  ELSE IdleSend]
    /\ timers' = TimersAfterClearDraft(send[i].op)
    /\ broadcastDrafts' = DraftsAfterClearDraft(send[i].op)
    /\ Reply(send[i].op, "summary")
    /\ heap' = Collect(heap)

\* await ctx.replyWithDocument({source: Buffer.from(reportText), ...}): the lines
\* of reportText are the delivered names and the failed names, all of them.
SendReport(i) ==
    /\ send[i].pc = "report"
    /\ BotStep
    /\ report' = [report EXCEPT !.document = <<send[i].deliveredNames, send[i].failedNames>>]
    /\ send' = [send EXCEPT ![i] = IdleSend]
    /\ Reply(send[i].op, "document")
    /\ UNCHANGED <<broadcastDrafts, heap, timers, ledger, clock>>

\* await Broadcast.create({...})
SendCreate(i) ==
    /\ send[i].pc = "create"
    /\ BotStep
    /\ Create("Broadcast")
    /\ send' = [send EXCEPT ![i].pc = "count"]
    /\ UNCHANGED <<broadcastDrafts, heap, timers, lastReply, report>>

\* const totalBroadcasts = await Broadcast.countDocuments(); if (> 500) ...
SendCount(i) ==
    LET extra == Extra(countDocuments("Broadcast"), BroadcastCapacity) IN
    /\ send[i].pc = "count"
    /\ BotStep
    /\ UNCHANGED <<ledger, clock>>
    /\ IF extra > 0
       THEN /\ send' = [send EXCEPT ![i].pc = "findOld", ![i].extra = extra]
            /\ UNCHANGED <<broadcastDrafts, heap, timers, lastReply, report>>
       ELSE FinishSend(i)

\* await Broadcast.find().sort({createdAt: 1}).limit(extra); if (oldIds.length) ...
SendFindOld(i) ==
    LET oldIds == Oldest(ledger["Broadcast"], send[i].extra) IN
    /\ send[i].pc = "findOld"
    /\ BotStep
    /\ UNCHANGED <<ledger, clock>>
    /\ IF oldIds # {}
       THEN /\ send' = [send EXCEPT ![i].pc = "delete", ![i].oldIds = oldIds]
            /\ UNCHANGED <<broadcastDrafts, heap, timers, lastReply, report>>
       ELSE FinishSend(i)

\* await Broadcast.deleteMany(...)
SendDelete(i) ==
    /\ send[i].pc = "delete"
    /\ BotStep
    /\ DeleteMany("Broadcast", send[i].oldIds)
    /\ FinishSend(i)

\* A Broadcast call rejects: nothing in the handler catches it, bot.catch logs it
\* to the console and the handler is over.
SendRejects(i) ==
    /\ InCycle(send[i].pc)
    /\ BotStep
    /\ send' = [send EXCEPT ![i] = IdleSend]
    /\ Reply(0, "bot_error")
    /\ UNCHANGED <<broadcastDrafts, timers, ledger, clock, report>>
    /\ heap' = Collect(heap)

\* ------------------------------------------------------------ logAppError
\* A catch that rethrows.
CaughtMutant(me) == [me EXCEPT !.pc = "raised", !.failed = TRUE]
\* catch { } of logAppError: the rejection is dropped, the function returns.
Caught(me) == [me EXCEPT !.pc = "returned", !.failed = TRUE]

\* A route handler touches neither the users collection nor the bot.
LogStep == UNCHANGED <<userDocs, botVars, deskVars>>

\* A route handler's catch block calls logAppError(error, context).
RouteCatches(i) ==
    /\ log[i].pc = "idle"
    /\ LogStep
    /\ \A j \in LogIds : j < i => log[j].pc # "idle"
    /\ MayAppend("AppError", Cardinality({j \in LogIds : log[j].pc = "create"}))
    /\ log' = BeginCycle(log, i)
    /\ UNCHANGED <<ledger, clock>>

\* await AppError.create(payload)
LogCreate(i) ==
    /\ log[i].pc = "create"
    /\ LogStep
    /\ Create("AppError")
    /\ log' = [log EXCEPT ![i].pc = "count"]

\* const total = await AppError.countDocuments(); if (total > 500) ...
LogCount(i) ==
    LET extra == Extra(countDocuments("AppError"), ErrorLogCapacity) IN
    /\ log[i].pc = "count"
    /\ LogStep
    /\ UNCHANGED <<ledger, clock>>
    /\ log' = IF extra > 0
              THEN [log EXCEPT ![i].pc = "findOld", ![i].extra = extra]
              ELSE [log EXCEPT ![i].pc = "returned"]

\* await AppError.find().sort({createdAt: 1}).limit(extra); if (oldIds.length) ...
LogFindOld(i) ==
    LET oldIds == Oldest(ledger["AppError"], log[i].extra) IN
    /\ log[i].pc = "findOld"
    /\ LogStep
    /\ UNCHANGED <<ledger, clock>>
    /\ log' = IF oldIds # {}
              THEN [log EXCEPT ![i].pc = "delete", ![i].oldIds = oldIds]
              ELSE [log EXCEPT ![i].pc = "returned"]

\* await AppError.deleteMany(...)
LogDelete(i) ==
    /\ log[i].pc = "delete"
    /\ LogStep
    /\ DeleteMany("AppError", log[i].oldIds)
    /\ log' = [log EXCEPT ![i].pc = "returned"]

\* An AppError call rejects inside the try block.
LogRejects(i) ==
    /\ InCycle(log[i].pc)
    /\ LogStep
    /\ log' = [log EXCEPT ![i] = Caught(log[i])]
    /\ UNCHANGED <<ledger, clock>>

\* The route handler after await logAppError(...): res.status(500)...
Respond(i) ==
    /\ log[i].pc = "returned"
    /\ LogStep
    /\ log' = [log EXCEPT ![i].pc = "responded"]
    /\ UNCHANGED <<ledger, clock>>

\* The request is over; its locals are gone.
RouteReturns(i) ==
    /\ log[i].pc = "responded"
    /\ LogStep
    /\ log' = [log EXCEPT ![i] = IdleLog]
    /\ UNCHANGED <<ledger, clock>>

\* ------------------------------------------------------------ specifications
\* message.photo of the next photo the operator's draft sees, in or out of an album.
PhotoEvent(op, albums) ==
    \E n \in 1..MaxBurst :
        \E photo \in PhotoMessages(n), album \in albums :
            /\ broadcastDrafts[op] # NoDraft => n = heap[broadcastDrafts[op]].seen + 1
            /\ Photo(op, photo, album)

\* broadcast_send pressed, and not accepted while another broadcast_send handler is
\* running: one delivery at a time is followed.
ConfirmAlone(op) ==
    /\ ConfirmAccepts(broadcastDrafts[op]) => \A i \in SendIds : send[i].pc = "idle"
    /\ Confirm(op)

\* What a broadcast_send handler does after its guard.
DeliveryNext ==
    \E i \in SendIds :
        \/ \E ok \in BOOLEAN : SendNext(i, ok)
        \/ SendCreate(i)
        \/ SendCount(i)
        \/ SendFindOld(i)
        \/ SendDelete(i)
        \/ SendRejects(i)

\* The draft machine alone: a broadcast_send handler that passed its guard stays
\* at its first await.
InitBot ==
    /\ Init
    /\ ledger["AppError"] = {}
    /\ ledger["Broadcast"] = 1..(BroadcastCapacity - 1)
NextCompose ==
    \/ \E op \in Lone :
          \/ Compose(op)
          \/ PhotoEvent(op, AlbumIds \cup {Null})
          \/ \E raw \in TextMessages : Text(op, raw)
          \/ Cancel(op)
          \/ ConfirmAlone(op)
    \/ \E d \in DraftIds, k \in 1..MAX_BROADCAST_PHOTOS : TimerFires(d, k)
SpecCompose == InitBot /\ [][NextCompose]_vars
\* The draft machine with the timers of the event loop: a pending timer's callback
\* runs, unless the timer is cleared first.
SpecComposeFair ==
    SpecCompose /\ \A d \in DraftIds :
                      WF_vars(\E k \in 1..MAX_BROADCAST_PHOTOS : TimerFires(d, k))

\* The bot: composition, delivery and the Broadcast collection.
Next == NextCompose \/ DeliveryNext
Spec == InitBot /\ [][Next]_vars

\* Delivery alone: an operator who broadcasts single photos and never cancels.
NextDelivery ==
    \/ \E op \in Lone :
          \/ Compose(op)
          \/ PhotoEvent(op, {Null})
          \/ \E raw \in TextMessages : Text(op, raw)
          \/ ConfirmAlone(op)
    \/ DeliveryNext
SpecDelivery == InitBot /\ [][NextDelivery]_vars

\* The route handlers' error path: logAppError and the AppError collection.
InitLog ==
    /\ Init
    /\ ledger["Broadcast"] = {}
    /\ ledger["AppError"] # {}
    /\ \A u \in userDocs : ~u.isAdmin
NextLog ==
    \E i \in LogIds :
        \/ RouteCatches(i)
        \/ LogCreate(i)
        \/ LogCount(i)
        \/ LogFindOld(i)
        \/ LogDelete(i)
        \/ LogRejects(i)
        \/ Respond(i)
        \/ RouteReturns(i)
SpecLog == InitLog /\ [][NextLog]_vars

\* The two collections.  They share nothing, so a run exercises one of them: the
\* one that is not empty when the process starts.
InitLedgers == InitLog \/ InitBot
NextLedgers ==
    \/ ledger["Broadcast"] = {} /\ NextLog
    \/ ledger["AppError"] = {} /\ NextDelivery
SpecLedgers == InitLedgers /\ [][NextLedgers]_vars

\* logAppError invocations that race on a full AppError collection, none of whose
\* AppError calls rejects.
InitRace ==
    /\ InitLog
    /\ Cardinality(ledger["AppError"]) = ErrorLogCapacity
NextRace ==
    \E i \in LogIds :
        \/ RouteCatches(i)
        \/ LogCreate(i)
        \/ LogCount(i)
        \/ LogFindOld(i)
        \/ LogDelete(i)
        \/ Respond(i)
        \/ RouteReturns(i)
SpecRace == InitRace /\ [][NextRace]_vars

\* Two operators at their keyboards: composition, with a broadcast_send handler that
\* passed its guard staying at its first await.
InitPair ==
    /\ userDocs \in PairCollections
    /\ broadcastDrafts = [o \in Operators |-> NoDraft]
    /\ heap = [d \in DraftIds |-> NewDraft(0)]
    /\ timers = {}
    /\ send = [i \in SendIds |-> IdleSend]
    /\ ledger = [L \in Ledgers |-> IF L = "AppError" THEN {} ELSE 1..(BroadcastCapacity - 1)]
    /\ clock = [L \in Ledgers |-> Cardinality(ledger[L])]
    /\ log = [i \in LogIds |-> IdleLog]
    /\ lastReply = <<0, "none">>
    /\ report = NoReport
    /\ DeskAt("training")
\* message.text of the two operators: blank, or a word.
PairTexts == {<<" ">>, <<"a">>}
NextPair ==
    \/ \E op \in Operators :
          \/ Compose(op)
          \/ PhotoEvent(op, AlbumIds \cup {Null})
          \/ \E raw \in PairTexts : Text(op, raw)
          \/ Cancel(op)
          \/ ConfirmAlone(op)
    \/ \E d \in DraftIds, k \in 1..MAX_BROADCAST_PHOTOS : TimerFires(d, k)
SpecPair == InitPair /\ [][NextPair]_vars

\* A delivery to more users than the summary lists: the operator and enough users
\* with a destination for either list of names to pass InlineLimit.
ReportUsers ==
    { [telegramId |-> 1, isAdmin |-> TRUE, chatId |-> 101, isBot |-> FALSE] }
    \cup { [telegramId |-> n, isAdmin |-> FALSE, chatId |-> 100 + n, isBot |-> FALSE]
             : n \in 2..(InlineLimit + 2) }
InitReport ==
    /\ userDocs = ReportUsers
    /\ broadcastDrafts = [o \in Operators |-> NoDraft]
    /\ heap = [d \in DraftIds |-> NewDraft(0)]
    /\ timers = {}
    /\ send = [i \in SendIds |-> IdleSend]
    /\ \E n \in {0, 1} :
          ledger = [L \in Ledgers |->
                      IF L = "AppError" THEN {} ELSE 1..(BroadcastCapacity - n)]
    /\ clock = [L \in Ledgers |-> Cardinality(ledger[L])]
    /\ log = [i \in LogIds |-> IdleLog]
    /\ lastReply = <<0, "none">>
    /\ report = NoReport
    /\ DeskAt("training")
\* The sends of handler i so far, and this one, change their outcome at most once:
\* a run of deliveries and a run of failures, in either order.
OneTurn(i, ok) ==
    LET D == send[i].deliveredNames
        F == send[i].failedNames
    IN IF D = <<>> \/ F = <<>> THEN TRUE
       ELSE IF ok THEN Last(D) > Last(F) ELSE Last(F) > Last(D)
\* One delivery, with the document after its summary; the operator's next
\* broadcast_send is not followed.
NextReport ==
    \/ \E op \in Lone :
          \/ Compose(op)
          \/ PhotoEvent(op, {Null})
          \/ \E raw \in PairTexts : Text(op, raw)
          \/ report.to = 0 /\ ConfirmAlone(op)
    \/ \E i \in SendIds :
          \/ \E ok \in BOOLEAN : OneTurn(i, ok) /\ SendNext(i, ok)
          \/ SendCreate(i)
          \/ SendCount(i)
          \/ SendFindOld(i)
          \/ SendDelete(i)
          \/ SendReport(i)
SpecReport == InitReport /\ [][NextReport]_vars

\* The operator goes on writing to the bot while a delivery runs: every handler
\* but compose, and the debounce, between any two awaits of the fan-out.  No
\* Broadcast call rejects.
InitFanOut ==
    /\ userDocs \in {c \in UserCollections : Cardinality(c) > 1}
    /\ broadcastDrafts = [o \in Operators |-> NoDraft]
    /\ heap = [d \in DraftIds |-> NewDraft(0)]
    /\ timers = {}
    /\ send = [i \in SendIds |-> IdleSend]
    /\ ledger = [L \in Ledgers |-> IF L = "AppError" THEN {} ELSE 1..(BroadcastCapacity - 1)]
    /\ clock = [L \in Ledgers |-> Cardinality(ledger[L])]
    /\ log = [i \in LogIds |-> IdleLog]
    /\ lastReply = <<0, "none">>
    /\ report = NoReport
    /\ DeskAt("training")
\* message.text of an operator who writes one text and then another.
FanOutTexts == {<<"a">>, <<" ", "b", " ">>}
NextFanOut ==
    \/ \E op \in Lone :
          \/ broadcastDrafts[op] = NoDraft /\ Compose(op)
          \/ PhotoEvent(op, AlbumIds \cup {Null})
          \/ \E raw \in FanOutTexts : Text(op, raw)
          \/ ConfirmAlone(op)
    \/ \E d \in DraftIds, k \in 1..MAX_BROADCAST_PHOTOS : TimerFires(d, k)
    \/ \E i \in SendIds :
          \/ \E ok \in BOOLEAN : SendNext(i, ok)
          \/ SendCreate(i)
          \/ SendCount(i)
          \/ SendFindOld(i)
          \/ SendDelete(i)
SpecFanOut == InitFanOut /\ [][NextFanOut]_vars

\* The operator presses broadcast_send again while a delivery runs.
NextTwice ==
    \/ \E op \in Lone :
          \/ broadcastDrafts[op] = NoDraft /\ Compose(op)
          \/ PhotoEvent(op, {Null})
          \/ \E raw \in FanOutTexts : Text(op, raw)
          \/ Confirm(op)
    \/ \E i \in SendIds :
          \/ \E ok \in BOOLEAN : SendNext(i, ok)
          \/ SendCreate(i)
          \/ SendCount(i)
          \/ SendFindOld(i)
          \/ SendDelete(i)
SpecTwice == InitFanOut /\ [][NextTwice]_vars

\* ------------------------------------------------------------ the ledgers' properties
\* Handler i ends an append-and-prune cycle in this step and no call of it rejected.
LogCycleDone(i) ==
    InCycle(log[i].pc) /\ log'[i].pc = "returned" /\ ~log'[i].failed
SendCycleDone(i) ==
    /\ InCycle(send[i].pc)
    /\ send'[i].pc \in {"idle", "report"}
    /\ lastReply' = <<send[i].op, "summary">>

\* C1: for both collections, when an append-and-prune cycle that ran beside no other
\* cycle on its collection completes, the collection holds at most 500 documents.
C1_CountWithinCapacity ==
    [][ /\ \A i \in LogIds :
             LogCycleDone(i) /\ ~log[i].overlapped
                => Cardinality(ledger'["AppError"]) <= ErrorLogCapacity
        /\ \A i \in SendIds :
             SendCycleDone(i) /\ ~send[i].overlapped
                => Cardinality(ledger'["Broadcast"]) <= BroadcastCapacity ]_vars

\* A broadcast that pruned has just sent its summary: 500 documents are left.
C1_Witness ==
    /\ lastReply = <<1, "summary">>
    /\ clock["Broadcast"] > BroadcastCapacity
    /\ Cardinality(ledger["Broadcast"]) = BroadcastCapacity

\* The step removes exactly the overflow, and what it removes is older than all it keeps.
EvictsOverflow(L) ==
    LET removed == ledger[L] \ ledger'[L] IN
    /\ ledger'[L] \subseteq ledger[L]
    /\ Cardinality(removed) = Cardinality(ledger[L]) - Capacity(L)
    /\ Cardinality(removed) > 0
    /\ \A x \in removed : \A y \in ledger'[L] : x < y

\* The documents of L after the step are the Capacity(L) most recently created ones.
KeepsMostRecent(L) ==
    ledger'[L] = {x \in 1..clock'[L] : x > clock'[L] - Capacity(L)}

\* C2: in a cycle that ran beside no other cycle, the prune step removes exactly
\* count - 500 documents, the oldest ones, and leaves exactly the 500 most recently
\* created documents.
C2_EvictsExactlyOldestOverflow ==
    [][ /\ \A i \in LogIds :
             LogDelete(i) /\ ~log[i].overlapped
                => EvictsOverflow("AppError") /\ KeepsMostRecent("AppError")
        /\ \A i \in SendIds :
             SendDelete(i) /\ ~send[i].overlapped
                => EvictsOverflow("Broadcast") /\ KeepsMostRecent("Broadcast") ]_vars

\* logAppError has just pruned a full AppError collection: the oldest document is
\* gone and 500 are left.
C2_Witness ==
    \E i \in LogIds :
        /\ log[i].pc = "returned" /\ ~log[i].failed /\ ~log[i].overlapped
        /\ log[i].oldIds = {1}
        /\ ledger["AppError"] = 2..(ErrorLogCapacity + 1)

\* C3: a broadcast_send handler that is past its fan-out ends with the summary sent
\* to the operator and the operator's draft destroyed, also when a Broadcast call
\* rejected.
C3_PersistenceFailureSwallowed ==
    [][ \A i \in SendIds :
          InCycle(send[i].pc) /\ send'[i].pc = "idle"
             => /\ lastReply' = <<send[i].op, "summary">>
                /\ broadcastDrafts'[send[i].op] = NoDraft ]_vars

\* A Broadcast call has rejected: the console has the error, no summary went out and
\* the operator's draft is still in preview.
C3_Witness ==
    /\ lastReply = <<0, "bot_error">>
    /\ \A i \in SendIds : send[i].pc = "idle"
    /\ broadcastDrafts[1] # NoDraft
    /\ heap[broadcastDrafts[1]].step = "preview"

\* C4: an invocation of logAppError in which an AppError call rejected has returned
\* to the route handler, which then sends its response.
C4_LogAppErrorNeverRaises ==
    \A i \in LogIds :
        log[i].failed =>
            /\ log[i].pc \in {"returned", "responded"}
            /\ log[i].pc = "returned" => ENABLED Respond(i)

\* A route handler has responded although its logAppError call failed.
C4_Witness == \E i \in LogIds : log[i].failed /\ log[i].pc = "responded"

\* ------------------------------------------------------------ the draft's properties
\* The draft objects the map holds.
Mapped == {broadcastDrafts[o] : o \in Operators} \ {NoDraft}

\* The photo messages of a burst; photo n carries file id n.
BurstPhotos == UNION {PhotoMessages(n) : n \in 1..MaxBurst}

\* A debounce fires on a draft that took an album and nothing but album photos.
AlbumFires(d, k) ==
    TimerFires(d, k) /\ heap[d].step = "await_photos" /\ ~heap[d].single

\* The first n photos of the burst, in arrival order.
Arrived(n) == [j \in 1..n |-> j]

\* C5 as the specification words it: the debounce that moves an album-only draft to
\* await_text is the one the last photo of the burst armed.
C5_LastPhotoOfBurstFires ==
    [][ \A d \in DraftIds, k \in 1..MaxBurst :
          AlbumFires(d, k) => k = heap[d].seen ]_vars

\* C5: the debounce that fires on an album-only draft is the one the last accepted
\* photo armed (a photo past the cap is rejected and arms nothing); it finds the
\* photos of the burst in arrival order, cut at three, moves the draft to await_text
\* with one notice, and leaves no debounce of the draft pending.
C5_LastAcceptedPhotoFires ==
    [][ \A d \in DraftIds, k \in 1..MaxBurst :
          AlbumFires(d, k) =>
             /\ k = Len(heap[d].photoFileIds)
             /\ heap[d].photoFileIds = Arrived(Min({heap[d].seen, MAX_BROADCAST_PHOTOS}))
             /\ heap'[d].photoFileIds = heap[d].photoFileIds
             /\ heap'[d].step = "await_text"
             /\ lastReply' = <<heap[d].owner, "send_text">>
             /\ \A t \in timers' : t[1] # d ]_vars

\* An album of four has been debounced: three photos are kept, text is awaited.
C5_Witness ==
    \E d \in Mapped :
        /\ heap[d].step = "await_text" /\ ~heap[d].single
        /\ heap[d].seen = MAX_BROADCAST_PHOTOS + 1
        /\ heap[d].photoFileIds = Arrived(MAX_BROADCAST_PHOTOS)
        /\ lastReply = <<heap[d].owner, "send_text">>
        /\ \A t \in timers : t[1] # d

\* C6: a debounce that fires when its draft is no longer in await_photos, or no
\* longer in the map, changes no draft and sends no notice.
C6_StaleTimerIsNoOp ==
    [][ \A d \in DraftIds, k \in 1..MaxBurst :
          (TimerFires(d, k) /\ (d \notin Mapped \/ heap[d].step # "await_photos"))
             => heap' = heap /\ lastReply' = lastReply ]_vars

\* A draft that has its text (it was in preview) is back in await_text, told to
\* send the text.
C6_Witness ==
    \E d \in Mapped :
        /\ heap[d].step = "await_text"
        /\ heap[d].text # NoText
        /\ lastReply = <<heap[d].owner, "send_text">>

InPreviewWithText(op) ==
    /\ broadcastDrafts[op] # NoDraft
    /\ heap[broadcastDrafts[op]].step = "preview"
    /\ heap[broadcastDrafts[op]].text # NoText

\* C8: a confirm with no draft, or a draft not in preview, or a draft without text,
\* starts no delivery, writes no ledger and changes no draft; it answers "no data".
C8_ConfirmNeedsPreviewAndText ==
    [][ \A op \in Operators :
          (Confirm(op) /\ ~InPreviewWithText(op))
             => /\ UNCHANGED <<send, ledger, clock, heap, broadcastDrafts, timers>>
                /\ lastReply' = <<op, "no_data">> ]_vars

\* A confirm on a draft still waiting for its text has been turned down.
C8_Witness ==
    /\ lastReply = <<1, "no_data">>
    /\ broadcastDrafts[1] # NoDraft
    /\ heap[broadcastDrafts[1]].step = "await_text"
    /\ \A i \in SendIds : send[i].pc = "idle"

\* C9: when a broadcast_send handler that went through with its draft is over, that
\* draft is in the map no more.
C9_DraftDestroyedAfterConfirm ==
    [][ \A i \in SendIds :
          Running(send[i].pc) /\ ~Running(send'[i].pc)
             => \A o \in Operators : broadcastDrafts'[o] # send[i].draft ]_vars

\* The broadcast is recorded, its handler is over, and the draft it went through
\* with is still the operator's draft.
C9_Witness ==
    /\ \A i \in SendIds : ~Running(send[i].pc)
    /\ clock["Broadcast"] = BroadcastCapacity
    /\ Cardinality(ledger["Broadcast"]) = BroadcastCapacity
    /\ \E o \in Operators :
          /\ broadcastDrafts[o] # NoDraft
          /\ heap[broadcastDrafts[o]].step = "preview"

\* No draft holds more than three photos.
AtMostThreePhotos == \A d \in DraftIds : Len(heap[d].photoFileIds) <= MAX_BROADCAST_PHOTOS

\* C10: no draft ever holds more than three photos, and a photo that reaches a
\* draft in await_photos holding three is turned down with the limit notice and
\* leaves the photos and the step alone.
C10_PhotoCap ==
    /\ []AtMostThreePhotos
    /\ [][ \A op \in Operators, album \in AlbumIds \cup {Null} :
             \A photo \in BurstPhotos \ {<<>>} :
                LET d == broadcastDrafts[op] IN
                (/\ Photo(op, photo, album)
                 /\ d # NoDraft
                 /\ heap[d].step = "await_photos"
                 /\ Len(heap[d].photoFileIds) = MAX_BROADCAST_PHOTOS)
                   => /\ lastReply' = <<op, "limit">>
                      /\ heap'[d].photoFileIds = heap[d].photoFileIds
                      /\ heap'[d].step = "await_photos"
                      /\ timers' = timers ]_vars

\* A fourth photo has been turned down.
C10_Witness ==
    /\ lastReply = <<1, "limit">>
    /\ broadcastDrafts[1] # NoDraft
    /\ heap[broadcastDrafts[1]].step = "await_photos"
    /\ heap[broadcastDrafts[1]].photoFileIds = Arrived(MAX_BROADCAST_PHOTOS)
    /\ heap[broadcastDrafts[1]].seen = MAX_BROADCAST_PHOTOS + 1

\* ------------------------------------------------------------ compose-start
\* C11: a compose command of an admin leaves them with a fresh draft: await_photos,
\* no photos, no text, no timer; no pending timer refers to that draft or to the
\* draft they had before; a prior draft under delivery is another object, untouched.
C11_ComposeStartsAfresh ==
    [][ \A op \in Operators :
          (Compose(op) /\ isAdminUser(op)) =>
             LET old == broadcastDrafts[op]
                 new == broadcastDrafts'[op]
             IN
             /\ new # NoDraft
             /\ heap'[new].step = "await_photos"
             /\ heap'[new].photoFileIds = <<>>
             /\ heap'[new].text = NoText
             /\ heap'[new].mediaGroupTimer = NoTimer
             /\ heap'[new].owner = op
             /\ \A t \in timers' : t[1] # new /\ t[1] # old
             /\ (\E i \in SendIds : Running(send[i].pc) /\ send[i].draft = old)
                   => new # old /\ heap'[old] = heap[old]
             /\ lastReply' = <<op, "compose">> ]_vars

\* The operator has composed again while the draft they confirmed is being
\* delivered: the draft in the map is a fresh one, another object.
C11_Witness ==
    /\ lastReply = <<1, "compose">>
    /\ broadcastDrafts[1] # NoDraft
    /\ heap[broadcastDrafts[1]] = NewDraft(1)
    /\ timers = {}
    /\ \E i \in SendIds :
          /\ Running(send[i].pc)
          /\ send[i].draft # broadcastDrafts[1]
          /\ heap[send[i].draft].step = "preview"

\* The users collection has a document of op with isAdmin set.
HasAdminFlag(op) == \E u \in userDocs : u.telegramId = op /\ u.isAdmin = TRUE

\* C12: a compose command of someone who is no admin is answered with the denial
\* and changes neither the map nor any draft, timer or delivery.
C12_DeniedComposeChangesNothing ==
    [][ \A op \in Operators :
          (Compose(op) /\ ~HasAdminFlag(op))
             => /\ lastReply' = <<op, "denied">>
                /\ UNCHANGED <<broadcastDrafts, heap, timers, send, ledger, clock>> ]_vars

\* User 2, no admin, has been denied while the admin's draft stands in preview.
C12_Witness ==
    /\ lastReply = <<2, "denied">>
    /\ broadcastDrafts[2] = NoDraft
    /\ broadcastDrafts[1] # NoDraft
    /\ heap[broadcastDrafts[1]].step = "preview"

\* ------------------------------------------------------------ one draft per operator
\* What the map holds for op: the object and its fields, with its pending timers.
DraftView(op) ==
    LET d == broadcastDrafts[op] IN
    IF d = NoDraft THEN <<NoDraft>>
    ELSE <<d, heap[d].step, heap[d].photoFileIds, heap[d].text, heap[d].mediaGroupId,
           heap[d].mediaGroupTimer, {t \in timers : t[1] = d}>>

\* The step is an event of op: one of their messages or button presses, or a timer
\* of a draft of theirs.
EventOf(op) ==
    \/ Compose(op)
    \/ PhotoEvent(op, AlbumIds \cup {Null})
    \/ \E raw \in PairTexts : Text(op, raw)
    \/ Cancel(op)
    \/ Confirm(op)
    \/ \E t \in timers : heap[t[1]].owner = op /\ TimerFires(t[1], t[2])

\* C16: an event of one operator leaves what the map holds for every other operator
\* as it was: the object, its step, photos and text, and its pending timer.
C16_DraftsPartitionedPerOperator ==
    [][ \A A \in Operators :
          EventOf(A) => \A B \in Operators \ {A} : DraftView(B)' = DraftView(B) ]_vars

\* Both operators are composing: one stands in preview, the other has an album's
\* debounce pending.
C16_Witness ==
    /\ broadcastDrafts[1] # NoDraft
    /\ broadcastDrafts[2] # NoDraft
    /\ heap[broadcastDrafts[1]].step = "preview"
    /\ heap[broadcastDrafts[2]].step = "await_photos"
    /\ \E t \in timers : t[1] = broadcastDrafts[2]
    /\ lastReply = <<1, "preview">>

\* ------------------------------------------------------------ the draft's steps
\* C17: every draft in await_text or in preview holds at least one photo, and every
\* draft in preview has a text that is not empty (nor blank at either end).
C17_StepsHavePhotosAndText ==
    \A d \in DraftIds :
        /\ heap[d].step \in {"await_text", "preview"} => Len(heap[d].photoFileIds) >= 1
        /\ heap[d].step = "preview" =>
              /\ heap[d].text # <<>>
              /\ Head(heap[d].text) # " "
              /\ Last(heap[d].text) # " "

\* A draft with three photos stands in preview with the text "b", sent as " b ".
C17_Witness ==
    \E d \in Mapped :
        /\ heap[d].step = "preview"
        /\ Len(heap[d].photoFileIds) = MAX_BROADCAST_PHOTOS
        /\ heap[d].text = <<"b">>

\* C18: a photo with a file id and without media_group_id that reaches a draft in
\* await_photos below the cap is kept and moves the draft to await_text in that
\* same step; the step arms no timer.
C18_SinglePhotoAdvancesAtOnce ==
    [][ \A op \in Operators, photo \in BurstPhotos \ {<<>>} :
          LET d == broadcastDrafts[op] IN
          (/\ Photo(op, photo, Null)
           /\ d # NoDraft
           /\ heap[d].step = "await_photos"
           /\ Len(heap[d].photoFileIds) < MAX_BROADCAST_PHOTOS)
             => /\ heap'[d].step = "await_text"
                /\ heap'[d].photoFileIds = Append(heap[d].photoFileIds, Last(photo))
                /\ heap'[d].mediaGroupTimer = heap[d].mediaGroupTimer
                /\ timers' = timers
                /\ lastReply' = <<op, "photo_ok">> ]_vars

\* One single photo has been taken: text is awaited and no timer was ever armed.
C18_Witness ==
    /\ lastReply = <<1, "photo_ok">>
    /\ broadcastDrafts[1] # NoDraft
    /\ heap[broadcastDrafts[1]].step = "await_text"
    /\ heap[broadcastDrafts[1]].photoFileIds = <<1>>
    /\ heap[broadcastDrafts[1]].mediaGroupTimer = NoTimer
    /\ timers = {}

\* C19: a text that reaches a draft in await_text and is not empty once trimmed
\* becomes the draft's text, trimmed, and moves the draft to preview; one that is
\* empty once trimmed leaves the draft in await_text with no text.
C19_TextAcceptedOnlyWhenNotBlank ==
    [][ \A op \in Operators, raw \in TextMessages :
          LET d == broadcastDrafts[op] IN
          (Text(op, raw) /\ d # NoDraft /\ heap[d].step = "await_text")
             => IF Trim(raw) # <<>>
                THEN /\ heap'[d].text = Trim(raw)
                     /\ heap'[d].step = "preview"
                     /\ lastReply' = <<op, "preview">>
                ELSE /\ heap'[d].step = "await_text"
                     /\ heap'[d].text = NoText
                     /\ lastReply' = <<op, "empty_text">> ]_vars

\* A blank text has been turned down by a draft that is in await_text and has a text.
C19_Witness ==
    \E d \in Mapped :
        /\ lastReply = <<heap[d].owner, "empty_text">>
        /\ heap[d].step = "await_text"
        /\ heap[d].text # NoText

\* C20: a text that reaches an operator without a draft, or with a draft in
\* await_photos or in preview, changes neither the map nor any draft nor any timer;
\* in await_photos it is answered with the prompt for photos, else with nothing.
C20_TextElsewhereChangesNothing ==
    [][ \A op \in Operators, raw \in TextMessages :
          LET d == broadcastDrafts[op] IN
          (Text(op, raw) /\ (d = NoDraft \/ heap[d].step \in {"await_photos", "preview"}))
             => /\ UNCHANGED <<broadcastDrafts, heap, timers, send>>
                /\ lastReply' = IF d # NoDraft /\ heap[d].step = "await_photos"
                                THEN <<op, "photos_first">>
                                ELSE lastReply ]_vars

\* A text has been turned down by a draft that waits for photos, an album's
\* debounce pending.
C20_Witness ==
    /\ lastReply = <<1, "photos_first">>
    /\ broadcastDrafts[1] # NoDraft
    /\ heap[broadcastDrafts[1]].step = "await_photos"
    /\ heap[broadcastDrafts[1]].text = NoText
    /\ \E t \in timers : t[1] = broadcastDrafts[1]

\* ---------------------------------------------------- the delivery's properties
\* The found users with a destination (a chatId that is not falsy), in the order of
\* the loop, by telegramId.
Deliverable(users) ==
    LET HasChat(u) == u.chatId # 0
        kept == SelectSeq(users, HasChat)
    IN [k \in 1..Len(kept) |-> kept[k].telegramId]

\* C13: during a delivery every found user with a destination gets exactly one
\* send attempt, whatever the outcome of the attempts before it: in the loop the
\* attempts made are those for the deliverable users before the current one, and
\* past the loop those for all the deliverable users, each once and in order.
C13_OneAttemptPerRecipient ==
    \A i \in SendIds :
        /\ send[i].pc = "loop" =>
             /\ send[i].idx <= Len(send[i].users)
             /\ send[i].users[send[i].idx].chatId # 0
             /\ send[i].attempted =
                    Deliverable(SubSeq(send[i].users, 1, send[i].idx - 1))
        /\ InCycle(send[i].pc) => send[i].attempted = Deliverable(send[i].users)

\* A delivery past its loop whose first attempt failed, whose later one succeeded,
\* and which passed over a user without a destination.
C13_Witness ==
    \E i \in SendIds :
        /\ send[i].pc = "create"
        /\ Len(send[i].users) = 3
        /\ send[i].attempted = <<1, 3>>
        /\ send[i].failedNames = <<1>>
        /\ send[i].deliveredNames = <<3>>

\* The names of a list are those of users with a destination.
NamesDeliverable(names, users) ==
    \A k \in 1..Len(names) :
        \E j \in 1..Len(users) :
            formatUserName(users[j]) = names[k] /\ users[j].chatId # 0

\* C14: for every delivery past its loop, success + failure = the number of
\* attempts = the number of found users with a destination; users without one are
\* in neither list, and the lists of names are as long as the two counts.  The
\* summary reports these counts, and their sum as the total.
C14_TalliesMatchRecipients ==
    /\ \A i \in SendIds :
         InCycle(send[i].pc) =>
           /\ send[i].successCount + send[i].failedCount = Len(send[i].attempted)
           /\ Len(send[i].attempted) = Len(Deliverable(send[i].users))
           /\ Len(send[i].deliveredNames) = send[i].successCount
           /\ Len(send[i].failedNames) = send[i].failedCount
           /\ NamesDeliverable(send[i].deliveredNames, send[i].users)
           /\ NamesDeliverable(send[i].failedNames, send[i].users)
    /\ report.to # 0 =>
         /\ report.total = report.successCount + report.failedCount
         /\ report.total = Len(Deliverable(InOrder(FoundUsers)))

\* A summary that reports one delivered, one failed, two in all, where three users
\* were found and one of them has no destination.
C14_Witness ==
    /\ report.to # 0
    /\ report.successCount = 1
    /\ report.failedCount = 1
    /\ report.total = 2
    /\ Cardinality(FoundUsers) = 3
    /\ \E u \in FoundUsers : u.chatId = 0

\* The names a summary lists for a list of names: its first InlineLimit ones, all
\* of them when it has no more, the word for none when it is empty.
ListsFirstNames(preview, names) ==
    IF names = <<>> THEN preview = <<NoName>>
    ELSE /\ Len(preview) <= InlineLimit
         /\ Len(preview) <= Len(names)
         /\ Len(preview) = InlineLimit \/ Len(preview) = Len(names)
         /\ \A k \in 1..Len(preview) : preview[k] = names[k]

TimersOf(d) == {t \in timers : t[1] = d}

\* C21: at any time a draft has at most one pending debounce timer, and it is the
\* one its mediaGroupTimer field holds: arming a timer clears the one armed before.
C21_OneTimerPerDraft ==
    \A d \in DraftIds :
        /\ Cardinality(TimersOf(d)) <= 1
        /\ \A t \in TimersOf(d) : t[2] = heap[d].mediaGroupTimer

\* A draft whose second album photo armed the pending timer; the first photo's
\* timer, pending until then, is gone.
C21_Witness ==
    \E d \in Mapped :
        /\ heap[d].step = "await_photos"
        /\ Len(heap[d].photoFileIds) = 2
        /\ TimersOf(d) = {<<d, 2>>}

\* ------------------------------------------------------------ photos out of turn
\* C22: a photo event for an operator who has no draft, or whose draft is not
\* awaiting photos, changes nothing: the map, every draft object (photos, step,
\* album, timer handle) and the pending timers are as before, and no draft is
\* created.
C22_PhotoOutOfTurnIsNoOp ==
    [][ \A op \in Operators :
          LET d == broadcastDrafts[op] IN
          /\ d = NoDraft \/ heap[d].step # "await_photos"
          /\ \E photo \in BurstPhotos, album \in AlbumIds \cup {Null} :
                 Photo(op, photo, album)
          => UNCHANGED <<broadcastDrafts, heap, timers>>
      ]_vars

\* An album whose debounce has fired: the draft awaits the text, and the next photo
\* of the album finds it there.
C22_Witness ==
    \E op \in Operators :
        LET d == broadcastDrafts[op] IN
        /\ d # NoDraft
        /\ heap[d].step = "await_text"
        /\ heap[d].mediaGroupId # Null
        /\ ~heap[d].single
        /\ TimersOf(d) = {}
        /\ lastReply = <<op, "send_text">>
        /\ ENABLED (\E album \in AlbumIds : Photo(op, <<2>>, album))

\* ------------------------------------------------------------ cycles that interleave
\* C23: on a full AppError collection, whenever a cycle completes and leaves no
\* other cycle under way, the collection holds exactly 500 documents, however the
\* cycles interleaved at their awaits.
C23_InterleavedCyclesKeepCapacity ==
    [][ \A i \in LogIds :
          /\ LogCycleDone(i)
          /\ \A j \in LogIds \ {i} : ~InCycle(log'[j].pc)
          => Cardinality(ledger'["AppError"]) = ErrorLogCapacity
      ]_vars

\* Two cycles that ran beside each other have both completed, no call rejected,
\* and the collection is two documents short of 500.
C23_Witness ==
    /\ \A i \in LogIds :
         log[i].pc = "returned" /\ log[i].overlapped /\ ~log[i].failed
    /\ clock["AppError"] = ErrorLogCapacity + 2
    /\ Cardinality(ledger["AppError"]) = ErrorLogCapacity - 2

\* ------------------------------------------------------------ events during a fan-out
\* C24: a draft is delivered at most once.  A broadcast_send handled while a
\* handler of the same operator is in its fan-out with the operator's draft starts
\* no second fan-out, and no two running handlers deliver the same draft object.
C24_DraftDeliveredOnce ==
    [][ /\ \A op \in Operators :
             /\ Confirm(op)
             /\ \E i \in SendIds :
                    /\ send[i].pc = "loop"
                    /\ send[i].op = op
                    /\ send[i].draft = broadcastDrafts[op]
             => UNCHANGED send
        /\ \A i, j \in SendIds :
             /\ i # j
             /\ Running(send'[i].pc)
             /\ Running(send'[j].pc)
             => send'[i].draft # send'[j].draft
      ]_vars

\* Two handlers have gone through their fan-out with the same draft object, and
\* each has created its Broadcast document.
C24_Witness ==
    \E i, j \in SendIds :
        /\ i # j
        /\ send[i].pc = "count"
        /\ send[j].pc = "count"
        /\ send[i].draft = send[j].draft
        /\ send[i].attempted = send[j].attempted
        /\ send[i].attempted # <<>>
        /\ clock["Broadcast"] = BroadcastCapacity + 1

\* C25: the completion of a delivery destroys only the draft that was confirmed: a
\* draft the operator composed while the handler was running, which is another
\* object than the handler's, is still the operator's draft after the summary.
C25_CompletionKeepsNewDraft ==
    [][ \A i \in SendIds :
          LET op == send[i].op IN
          /\ SendCycleDone(i)
          /\ broadcastDrafts[op] # NoDraft
          /\ broadcastDrafts[op] # send[i].draft
          => /\ broadcastDrafts'[op] = broadcastDrafts[op]
             /\ heap'[broadcastDrafts[op]] = heap[broadcastDrafts[op]]
      ]_vars

\* A handler at its last Broadcast call, whose operator has composed a fresh draft
\* since the confirm.
C25_Witness ==
    \E i \in SendIds :
        LET d == broadcastDrafts[send[i].op] IN
        /\ send[i].pc = "count"
        /\ send[i].attempted # <<>>
        /\ d # NoDraft
        /\ d # send[i].draft
        /\ heap[d].step = "await_photos"
        /\ heap[d].photoFileIds = <<>>

\* C26: within one broadcast every call of sendBroadcastToChat, and the Broadcast
\* document, get the photos and the text the draft held when the confirm was
\* accepted, whatever the operator's other handlers and the debounce did since.
C26_OnePayloadPerBroadcast ==
    \A i \in SendIds :
        /\ \A k \in 1..Len(send[i].sent) : send[i].sent[k] = send[i].confirmed
        /\ \A k \in 1..Len(send[i].recorded) : send[i].recorded[k] = send[i].confirmed

\* A fan-out whose first recipient was sent the text "a" and whose second one the
\* text "b", with the same photos.
C26_Witness ==
    \E i \in SendIds :
        /\ send[i].pc = "loop"
        /\ Len(send[i].sent) = 2
        /\ send[i].sent[1] = send[i].confirmed
        /\ send[i].sent[1][2] = <<"a">>
        /\ send[i].sent[2][2] = <<"b">>
        /\ send[i].sent[2][1] = send[i].sent[1][1]

\* ------------------------------------------------------------ the debounce fires
\* The operator's draft d awaits photos and holds at least one.
AlbumOpen(d) ==
    /\ d \in Mapped
    /\ heap[d].step = "await_photos"
    /\ heap[d].photoFileIds # <<>>

\* C27: a draft that awaits photos and holds one always has a pending debounce
\* timer, and it does not await photos for ever: eventually it awaits the text (or
\* has it), or it is destroyed: it is no longer the operator's draft, or a fresh
\* draft without photos has taken its place.
C27_AlbumReachesAwaitingText ==
    /\ [](\A d \in DraftIds : AlbumOpen(d) => TimersOf(d) # {})
    /\ \A d \in DraftIds : AlbumOpen(d) ~> ~AlbumOpen(d)

\* The debounce of a one-photo album has fired: the draft awaits the text.
C27_Witness ==
    \E d \in Mapped :
        /\ heap[d].step = "await_text"
        /\ heap[d].seen = 1
        /\ ~heap[d].single
        /\ Len(heap[d].photoFileIds) = 1
        /\ TimersOf(d) = {}
        /\ lastReply = <<heap[d].owner, "send_text">>

\* ------------------------------------------------------------ after a failed prune
\* C28: when the AppError collection was left above 500 (a prune failed after its
\* create), a later cycle that runs beside no other cycle and in which no call
\* rejects removes the whole excess in its one deleteMany, and completes with at
\* most 500 documents.
C28_NextCycleEvictsWholeExcess ==
    [][ \A i \in LogIds :
          /\ ~log[i].overlapped
          /\ Cardinality(ledger["AppError"]) > ErrorLogCapacity + 1
          => /\ LogDelete(i) =>
                  /\ Cardinality(ledger["AppError"] \ ledger'["AppError"])
                        = Cardinality(ledger["AppError"]) - ErrorLogCapacity
                  /\ Cardinality(ledger'["AppError"]) = ErrorLogCapacity
             /\ LogCycleDone(i) =>
                  Cardinality(ledger'["AppError"]) <= ErrorLogCapacity
      ]_vars

\* The cycle after a failed prune has completed: it found 502 documents, removed
\* the two oldest, and 500 are left.
C28_Witness ==
    \E i \in LogIds :
        /\ log[i].pc = "returned" /\ ~log[i].failed /\ ~log[i].overlapped
        /\ log[i].extra = 2
        /\ log[i].oldIds = {1, 2}
        /\ ledger["AppError"] = 3..(ErrorLogCapacity + 2)

\* ------------------------------------------------------------ order routes
\* A handler of the order routes touches neither the bot nor the two capped collections.
DeskStep == UNCHANGED <<userDocs, botVars, log, ledger, clock>>

\* The status an order must have for the route to apply, and the one it gets.
Source(route) == IF route = "complete" THEN "accepted" ELSE "pending"
Target(route) ==
    CASE route = "accept" -> "accepted"
      [] route = "decline" -> "declined"
      [] route = "complete" -> "completed"

\* The customer's status the route writes once the order has moved.
UserStatusAfter(route) ==
    CASE route = "accept" -> "active"
      [] route = "decline" -> "declined"
      [] route = "complete" -> "completed"
      [] route = "create" -> "requested"

\* findOneAndUpdate({_id: id, status: Source(route)}, {status: Target(route)}): the order
\* found, or none.
Found(O, id, route) == O[id] = Source(route)
FindOneAndUpdate(O, id, route) ==
    IF Found(O, id, route) THEN [O EXCEPT ![id] = Target(route)] ELSE O

\* The handler once findOneAndUpdate has answered: 404 without an order, else on to
\* User.updateOne.
Answered(me, found) ==
    IF found THEN [me EXCEPT !.pc = "user"]
    ELSE [me EXCEPT !.pc = "done", !.result = 404]

\* POST /api/admin/.../:id/accept with an admin id and an Excel attachment: the file is
\* written, then the handler waits for findOneAndUpdate.
AcceptSaves(r, id) ==
    /\ req[r].pc = "idle"
    /\ uploads < MaxUploads
    /\ uploads' = uploads + 1
    /\ req' = [req EXCEPT ![r] = [IdleReq EXCEPT !.pc = "update", !.route = "accept",
                                               !.id = id, !.saved = TRUE]]
    /\ UNCHANGED <<kind, orders, userStatus>>
    /\ DeskStep

\* findOneAndUpdate of the accept route.
AcceptUpdates(r) ==
    /\ req[r].pc = "update"
    /\ orders' = FindOneAndUpdate(orders, req[r].id, "accept")
    /\ req' = [req EXCEPT ![r] = Answered(@, Found(orders, req[r].id, "accept"))]
    /\ UNCHANGED <<kind, userStatus, uploads>>
    /\ DeskStep

\* POST /api/admin/.../:id/decline or /complete with an admin id: findOneAndUpdate.
Decide(r, route, id) ==
    /\ req[r].pc = "idle"
    /\ orders' = FindOneAndUpdate(orders, id, route)
    /\ req' = [req EXCEPT ![r] =
                  Answered([IdleReq EXCEPT !.route = route, !.id = id], Found(orders, id, route))]
    /\ UNCHANGED <<kind, userStatus, uploads>>
    /\ DeskStep

\* POST /api/miniapp/orders of telegram id who, with a valid body: User.findOne and the
\* checks on the user.
CreateReads(r, who) ==
    /\ req[r].pc = "idle"
    /\ LET me == [IdleReq EXCEPT !.route = "create"]
           found == \E u \in userDocs : u.telegramId = who
           admin == \E u \in userDocs : u.telegramId = who /\ u.isAdmin
       IN  req' = [req EXCEPT ![r] =
                     IF ~found THEN [me EXCEPT !.pc = "done", !.result = 404]
                     ELSE IF admin THEN [me EXCEPT !.pc = "done", !.result = 403]
                     ELSE IF userStatus \in {"active", "requested"}
                          THEN [me EXCEPT !.pc = "done", !.result = 409]
                     ELSE [me EXCEPT !.pc = "create"]]
    /\ UNCHANGED <<kind, orders, userStatus, uploads>>
    /\ DeskStep

\* Order.create: a new document, pending.
CreateOrder(r) ==
    /\ req[r].pc = "create"
    /\ \E id \in OrderIds :
          /\ orders[id] = "absent"
          /\ \A o \in OrderIds : o < id => orders[o] # "absent"
          /\ orders' = [orders EXCEPT ![id] = "pending"]
          /\ req' = [req EXCEPT ![r].pc = "user", ![r].id = id]
    /\ UNCHANGED <<kind, userStatus, uploads>>
    /\ DeskStep

\* User.updateOne, then the response: 201 for a new order, 200 otherwise.
SetUser(r) ==
    /\ req[r].pc = "user"
    /\ userStatus' = UserStatusAfter(req[r].route)
    /\ req' = [req EXCEPT ![r].pc = "done",
                          ![r].result = IF req[r].route = "create" THEN 201 ELSE 200]
    /\ UNCHANGED <<kind, orders, uploads>>
    /\ DeskStep

\* The response is out; the handler's locals are gone.
RequestEnds(r) ==
    /\ req[r].pc = "done"
    /\ req' = [req EXCEPT ![r] = IdleReq]
    /\ UNCHANGED <<kind, orders, userStatus, uploads>>
    /\ DeskStep

\* The order routes alone: an admin and the customer in the users collection, either
\* collection of orders.
InitOrders ==
    /\ userDocs \in {U \in UserCollections : \E u \in U : u.telegramId = Customer}
    /\ broadcastDrafts = [o \in Operators |-> NoDraft]
    /\ heap = [d \in DraftIds |-> NewDraft(0)]
    /\ timers = {}
    /\ send = [i \in SendIds |-> IdleSend]
    /\ ledger = [L \in Ledgers |-> {}]
    /\ clock = [L \in Ledgers |-> 0]
    /\ log = [i \in LogIds |-> IdleLog]
    /\ lastReply = <<0, "none">>
    /\ report = NoReport
    /\ \E k \in Kinds : DeskAt(k)

NextOrders ==
    \/ \E r \in ReqIds, id \in OrderIds : AcceptSaves(r, id)
    \/ \E r \in ReqIds : AcceptUpdates(r)
    \/ \E r \in ReqIds, route \in {"decline", "complete"}, id \in OrderIds : Decide(r, route, id)
    \/ \E r \in ReqIds, who \in {1, Customer, Stranger} : CreateReads(r, who)
    \/ \E r \in ReqIds : CreateOrder(r)
    \/ \E r \in ReqIds : SetUser(r)
    \/ \E r \in ReqIds : RequestEnds(r)

SpecOrders == InitOrders /\ [][NextOrders]_vars

\* ------------------------------------------------------------ C29
AdminRoutes == {"accept", "decline", "complete"}
\* The step in which the findOneAndUpdate of handler r ran.
Applies(r) ==
    /\ req'[r].route \in AdminRoutes
    /\ req[r].pc \in {"idle", "update"}
    /\ req'[r].pc \in {"user", "done"}
\* Handler r moved its order.
Succeeded(r) == req[r].route \in AdminRoutes /\ (req[r].pc = "user" \/ req[r].result = 200)
\* An order's status changes only along pending -> accepted, pending -> declined and
\* accepted -> completed.
LegalMoves ==
    \A id \in OrderIds :
        orders[id] \in Statuses /\ orders'[id] # orders[id] =>
            <<orders[id], orders'[id]>> \in
                {<<"pending", "accepted">>, <<"pending", "declined">>, <<"accepted", "completed">>}
\* A route applied to an order in its source status moves it and goes on; applied to any
\* other order it answers 404 and leaves orders and the customer's status alone.
AppliesOrRefuses ==
    \A r \in ReqIds :
        Applies(r) =>
            LET id == req'[r].id
                route == req'[r].route
            IN  IF orders[id] = Source(route)
                THEN orders' = [orders EXCEPT ![id] = Target(route)] /\ req'[r].pc = "user"
                ELSE /\ req'[r].pc = "done" /\ req'[r].result = 404
                     /\ orders' = orders /\ userStatus' = userStatus
\* An accept and a decline of one order never both succeed.
OneWinner ==
    \A r1, r2 \in ReqIds :
        req[r1].route = "accept" /\ req[r2].route = "decline" /\ req[r1].id = req[r2].id
            => ~(Succeeded(r1) /\ Succeeded(r2))
\* A request answered 404 has stored no file.
RefusedStoredNothing ==
    \A r \in ReqIds : req[r].route \in AdminRoutes /\ req[r].result = 404 => ~req[r].saved

\* C29: an order's status only moves pending -> accepted, pending -> declined and
\* accepted -> completed; accept, decline or complete applied to an order that is not
\* in the required source status returns 404 and changes nothing (no order, no user
\* status, no stored file); of an accept and a decline racing on one pending order
\* exactly one succeeds.
C29_OnlyLegalMovesElse404 ==
    /\ [][LegalMoves /\ AppliesOrRefuses]_vars
    /\ []OneWinner
    /\ []RefusedStoredNothing
\* An accept found its order already declined by the request it raced with, and was
\* answered 404 after its attachment had been written.
C29_Witness ==
    \E r1, r2 \in ReqIds :
        /\ req[r1].route = "accept" /\ req[r1].result = 404 /\ req[r1].saved
        /\ req[r2].route = "decline" /\ Succeeded(r2) /\ req[r2].id = req[r1].id
        /\ orders[req[r1].id] = "declined" /\ uploads > 0

\* ------------------------------------------------------------ C30
Open == {"pending", "accepted"}
OpenOrders == {id \in OrderIds : orders[id] \in Open}
\* A step that adds an order finds the customer's status neither requested nor active.
CreatesOnlyWhenFree ==
    (\E id \in OrderIds : orders[id] = "absent" /\ orders'[id] # "absent")
        => userStatus \notin {"requested", "active"}

\* C30: a user has at most one open (pending or accepted) training order at any time,
\* and an order is created only while the user's trainingStatus is neither requested
\* nor active, also when two create requests of the user are handled concurrently.
C30_AtMostOneOpenOrder ==
    /\ [](kind = "training" => Cardinality(OpenOrders) <= 1)
    /\ [][kind = "training" => CreatesOnlyWhenFree]_vars
\* Two create requests both passed the status check before either stored its order;
\* both orders are pending.
C30_Witness ==
    /\ kind = "training"
    /\ Cardinality(OpenOrders) = 2
    /\ \A r \in ReqIds : req[r].route = "create" /\ req[r].pc \in {"user", "done"}
    /\ req[1].id # req[2].id

====
